---- MODULE Spec2Model ----
\* Pan/tilt/laser controller of cortex_srt_arduino/src/main.cpp: the serial
\* receive buffer, loop(), parseCommand() and the outputs it drives.
\*
\* The C++ type float is IEEE-754 binary32.  A float is modelled as a record
\*   [k |-> "num", s |-> sign (1 or -1), m |-> significand, e |-> exponent]
\* of value s * m * 2^e with m = 0 (zero, s = 1, e = 0) or 2^23 <= m < 2^24,
\* or [k |-> "inf", s |-> sign], or [k |-> "nan"].  Every operation rounds to
\* nearest, ties to even, as the hardware or soft-float library does.  The
\* exponent is not bounded: no value of the model comes near 2^-126 or 2^128.
\* The sign of zero is not kept (no operation of the program observes it).
EXTENDS Integers, Sequences, FiniteSets, TLC

\* ---------------------------------------------------------------- binary32

\* 2^n for n <= 30, the powers of two a 32-bit integer holds (1 for n <= 0).
RECURSIVE Doubled(_)
Doubled(n) == IF n <= 0 THEN 1 ELSE 2 * Doubled(n - 1)

Pow2Table == [n \in 0 .. 30 |-> Doubled(n)]

Pow2(n) == IF n <= 0 THEN 1 ELSE Pow2Table[n]

RECURSIVE BitLen(_)
BitLen(n) == IF n <= 0 THEN 0 ELSE 1 + BitLen(n \div 2)

Abs(n) == IF n < 0 THEN -n ELSE n

MantBits == 24

NaN == [k |-> "nan", s |-> 1, m |-> 0, e |-> 0]

Inf(s) == [k |-> "inf", s |-> s, m |-> 0, e |-> 0]

FZero == [k |-> "num", s |-> 1, m |-> 0, e |-> 0]

IsNum(a) == a.k = "num"

\* The float nearest to s * M * 2^e (ties to even).  When M carries a sticky
\* lowest bit (an inexact tail), the callers keep M >= 2^25 so the bit lies
\* below the rounding position.
RoundNE(s, M, e) ==
    IF M = 0 THEN FZero
    ELSE LET b == BitLen(M) IN
         IF b <= MantBits
         THEN [k |-> "num", s |-> s, m |-> M * Pow2(MantBits - b), e |-> e - (MantBits - b)]
         ELSE LET sh   == b - MantBits
                  q    == M \div Pow2(sh)
                  r    == M % Pow2(sh)
                  half == Pow2(sh - 1)
                  up   == r > half \/ (r = half /\ q % 2 = 1)
                  q1   == IF up THEN q + 1 ELSE q
              IN IF q1 = Pow2(MantBits)
                 THEN [k |-> "num", s |-> s, m |-> Pow2(MantBits - 1), e |-> e + sh + 1]
                 ELSE [k |-> "num", s |-> s, m |-> q1, e |-> e + sh]

\* int -> float conversion (PAN_MIN, PAN_MAX, ... in float expressions).
FromInt(n) == RoundNE(IF n < 0 THEN -1 ELSE 1, Abs(n), 0)

FNeg(a) == IF a.k = "nan" \/ (a.k = "num" /\ a.m = 0) THEN a ELSE [a EXCEPT !.s = -a.s]

\* M shifted right by sh bits, the bits shifted out OR-ed into the lowest bit.
ShiftJam(M, sh) ==
    IF sh = 0 THEN M
    ELSE IF sh >= 31 THEN (IF M = 0 THEN 0 ELSE 1)
    ELSE LET q == M \div Pow2(sh) IN
         IF M % Pow2(sh) = 0 \/ q % 2 = 1 THEN q ELSE q + 1

\* a + b for two finite floats: align on three guard bits, add, round once.
AddNum(a, b) ==
    IF a.m = 0 THEN b
    ELSE IF b.m = 0 THEN a
    ELSE LET hi == IF a.e >= b.e THEN a ELSE b
             lo == IF a.e >= b.e THEN b ELSE a
             A  == hi.m * 8
             B  == ShiftJam(lo.m * 8, hi.e - lo.e)
             e0 == hi.e - 3
         IN IF hi.s = lo.s THEN RoundNE(hi.s, A + B, e0)
            ELSE IF A > B THEN RoundNE(hi.s, A - B, e0)
            ELSE IF A < B THEN RoundNE(lo.s, B - A, e0)
            ELSE FZero

\* float + float
FAdd(a, b) ==
    IF a.k = "nan" \/ b.k = "nan" THEN NaN
    ELSE IF a.k = "inf" /\ b.k = "inf" THEN (IF a.s = b.s THEN a ELSE NaN)
    ELSE IF a.k = "inf" THEN a
    ELSE IF b.k = "inf" THEN b
    ELSE AddNum(a, b)

\* float - float
FSub(a, b) == FAdd(a, FNeg(b))

\* a * b for two finite floats: the 48-bit product by 12-bit limbs, kept to
\* 27 bits plus a sticky bit, rounded once.
MulNum(a, b) ==
    IF a.m = 0 \/ b.m = 0 THEN FZero
    ELSE LET L   == 4096
             ah  == a.m \div L
             al  == a.m % L
             bh  == b.m \div L
             bl  == b.m % L
             mid == ah * bl + al * bh
             low == al * bl + (mid % L) * L
             hi  == ah * bh + mid \div L + low \div (L * L)
             lo  == low % (L * L)
             top == lo \div Pow2(21)
             st  == IF lo % Pow2(21) = 0 THEN 0 ELSE 1
             M   == hi * 8 + top
             Mj  == IF st = 1 /\ M % 2 = 0 THEN M + 1 ELSE M
         IN RoundNE(a.s * b.s, Mj, a.e + b.e + 21)

\* float * float
FMul(a, b) ==
    IF a.k = "nan" \/ b.k = "nan" THEN NaN
    ELSE IF a.k = "inf" \/ b.k = "inf"
         THEN (IF (a.k = "num" /\ a.m = 0) \/ (b.k = "num" /\ b.m = 0) THEN NaN
               ELSE Inf(a.s * b.s))
    ELSE MulNum(a, b)

\* a < b for two finite floats
LessNum(a, b) ==
    IF a.s # b.s THEN a.s < b.s
    ELSE IF a.m = 0 \/ b.m = 0 THEN (a.s = 1 /\ a.m < b.m) \/ (a.s = -1 /\ b.m < a.m)
    ELSE LET magLess == a.e < b.e \/ (a.e = b.e /\ a.m < b.m)
             magMore == a.e > b.e \/ (a.e = b.e /\ a.m > b.m)
         IN IF a.s = 1 THEN magLess ELSE magMore

\* float < float: false whenever an operand is NaN
FLess(a, b) ==
    IF a.k = "nan" \/ b.k = "nan" THEN FALSE
    ELSE IF a.k = "inf" /\ b.k = "inf" THEN a.s < b.s
    ELSE IF a.k = "inf" THEN a.s = -1
    ELSE IF b.k = "inf" THEN b.s = 1
    ELSE LessNum(a, b)

FLeq(a, b) == a.k # "nan" /\ b.k # "nan" /\ ~FLess(b, a)

\* n / d (n >= 0, d > 0) as a float: long division to 26 quotient bits and a
\* sticky bit, rounded once.
RECURSIVE DivBits(_, _, _, _)
DivBits(q, r, d, j) ==
    IF q >= Pow2(25) \/ j >= 200 THEN <<q, r, j>>
    ELSE DivBits(2 * q + (IF 2 * r >= d THEN 1 ELSE 0), (2 * r) % d, d, j + 1)

FromRatio(s, n, d) ==
    IF n = 0 THEN FZero
    ELSE IF n % d = 0 THEN RoundNE(s, n \div d, 0)
    ELSE LET t  == DivBits(n \div d, n % d, d, 0)
             M  == 2 * t[1] + (IF t[2] = 0 THEN 0 ELSE 1)
         IN RoundNE(s, M, -(t[3] + 1))

\* ------------------------------------------------------- Arduino String

\* A String is a sequence of one-character strings; C indices are 0-based.
Digit == {"0", "1", "2", "3", "4", "5", "6", "7", "8", "9"}

DigitVal(c) ==
    CASE c = "0" -> 0 [] c = "1" -> 1 [] c = "2" -> 2 [] c = "3" -> 3 [] c = "4" -> 4
      [] c = "5" -> 5 [] c = "6" -> 6 [] c = "7" -> 7 [] c = "8" -> 8 [] c = "9" -> 9

Space == {" ", "\t", "\r", "\n"}

Lower(c) ==
    CASE c = "N" -> "n" [] c = "A" -> "a" [] c = "I" -> "i" [] c = "F" -> "f" [] OTHER -> c

RECURSIVE Pow10(_)
Pow10(n) == IF n <= 0 THEN 1 ELSE 10 * Pow10(n - 1)

\* String::indexOf(ch, fromIndex): -1 when fromIndex >= length or ch is absent.
IndexOf(str, ch, fromIndex) ==
    IF fromIndex >= Len(str) THEN -1
    ELSE LET hits == {i \in fromIndex .. Len(str) - 1 : str[i + 1] = ch} IN
         IF hits = {} THEN -1 ELSE CHOOSE i \in hits : \A j \in hits : i <= j

\* String::substring(left, right): the characters [left, right).  The
\* parameters are unsigned: a negative int arrives as a value beyond any length.
Substring(str, left, right) ==
    LET l  == IF left < 0 THEN Len(str) + 1 ELSE left
        r0 == IF right < 0 THEN Len(str) + 1 ELSE right
        lo == IF l > r0 THEN r0 ELSE l
        hi == IF l > r0 THEN l ELSE r0
        r  == IF hi > Len(str) THEN Len(str) ELSE hi
    IN IF lo >= Len(str) THEN << >> ELSE SubSeq(str, lo + 1, r)

\* The first position (1-based) of str at or after i that holds no white space.
RECURSIVE SkipSpace(_, _)
SkipSpace(str, i) ==
    IF i <= Len(str) /\ str[i] \in Space THEN SkipSpace(str, i + 1) ELSE i

\* Whether str holds the three letters of word at position i, in either case.
HasWord(str, i, word) ==
    /\ i + 2 <= Len(str)
    /\ \A j \in 0 .. 2 : Lower(str[i + j]) = word[j + 1]

\* The decimal digits from position i on: <<all digits as one integer, the
\* number of digits after the point>>.
RECURSIVE ScanDec(_, _, _, _, _)
ScanDec(str, i, n, k, dot) ==
    IF i > Len(str) THEN <<n, k>>
    ELSE IF str[i] \in Digit
         THEN ScanDec(str, i + 1, 10 * n + DigitVal(str[i]), IF dot THEN k + 1 ELSE k, dot)
    ELSE IF str[i] = "." /\ ~dot THEN ScanDec(str, i + 1, n, k, TRUE)
    ELSE <<n, k>>

\* Mutant of ToFloat: text that holds no number converts to NaN, not to 0.
ToFloatNaN(str) ==
    LET i0   == SkipSpace(str, 1)
        neg  == i0 <= Len(str) /\ str[i0] = "-"
        sgn  == i0 <= Len(str) /\ str[i0] \in {"-", "+"}
        i1   == IF sgn THEN i0 + 1 ELSE i0
        d    == ScanDec(str, i1, 0, 0, FALSE)
    IN IF i1 > Len(str) \/ str[i1] \notin Digit \cup {"."} THEN NaN
       ELSE FromRatio(IF neg THEN -1 ELSE 1, d[1], Pow10(d[2]))

\* String::toFloat(), float(atof(buffer)): white space, a sign, then INF, NAN
\* or a decimal number; conversion stops at the first character that does not
\* fit and yields 0 when nothing was converted.  (The exponent part of a
\* decimal number is not modelled: no input of the model puts an 'e' after a
\* digit.)
ToFloat(str) ==
    LET i0   == SkipSpace(str, 1)
        neg  == i0 <= Len(str) /\ str[i0] = "-"
        sgn  == i0 <= Len(str) /\ str[i0] \in {"-", "+"}
        i1   == IF sgn THEN i0 + 1 ELSE i0
        s    == IF neg THEN -1 ELSE 1
        d    == ScanDec(str, i1, 0, 0, FALSE)
    IN IF HasWord(str, i1, <<"n", "a", "n">>) THEN NaN
       ELSE IF HasWord(str, i1, <<"i", "n", "f">>) THEN Inf(s)
       ELSE FromRatio(s, d[1], Pow10(d[2]))

\* String::toInt(), atol(buffer): white space, a sign, then decimal digits.
ToInt(str) ==
    LET i0   == SkipSpace(str, 1)
        neg  == i0 <= Len(str) /\ str[i0] = "-"
        sgn  == i0 <= Len(str) /\ str[i0] \in {"-", "+"}
        i1   == IF sgn THEN i0 + 1 ELSE i0
        RECURSIVE Acc(_, _)
        Acc(i, n) == IF i <= Len(str) /\ str[i] \in Digit
                     THEN Acc(i + 1, 10 * n + DigitVal(str[i])) ELSE n
    IN IF neg THEN -Acc(i1, 0) ELSE Acc(i1, 0)

\* ------------------------------------------------------------ the program

PAN_MIN == 0

PAN_MAX == 180

TILT_MIN == 0

TILT_MAX == 180

\* const float SMOOTH_FACTOR = 0.3: the float nearest to 3/10.
SMOOTH_FACTOR == FromRatio(1, 3, 10)

\* Mutant of Constrain: the lower limit is not applied.
ConstrainHighOnly(amt, low, high) ==
    IF FLess(FromInt(high), amt) THEN FromInt(high) ELSE amt

\* #define constrain(amt,low,high) ((amt)<(low)?(low):((amt)>(high)?(high):(amt)))
\* with amt a float and low, high ints converted to float.
Constrain(amt, low, high) ==
    IF FLess(amt, FromInt(low)) THEN FromInt(low)
    ELSE IF FLess(FromInt(high), amt) THEN FromInt(high)
    ELSE amt

\* Mutant of TargetPan: the delta is added, as for tilt.
TargetPanAdded(cur, panDelta) == FAdd(cur, panDelta)

\* float targetPan = currentPan - panDelta;
TargetPan(cur, panDelta) == FSub(cur, panDelta)

\* float targetTilt = currentTilt + tiltDelta;
TargetTilt(cur, tiltDelta) == FAdd(cur, tiltDelta)

\* Mutant of Smooth: the step is taken away from the target.
SmoothAway(cur, target) == FSub(cur, FMul(FSub(target, cur), SMOOTH_FACTOR))

\* current + (target - current) * SMOOTH_FACTOR
Smooth(cur, target) == FAdd(cur, FMul(FSub(target, cur), SMOOTH_FACTOR))

\* C integer division: the quotient truncated toward zero.
TruncDiv(a, b) ==
    IF (a >= 0) = (b > 0) THEN Abs(a) \div Abs(b) ELSE -(Abs(a) \div Abs(b))

\* long map(long x, long in_min, long in_max, long out_min, long out_max)
Map(x, in_min, in_max, out_min, out_max) ==
    TruncDiv((x - in_min) * (out_max - out_min), in_max - in_min) + out_min

\* The longs the conversion of a float argument to map's parameter long x can
\* yield.  A finite value is truncated toward zero; the conversion of NaN or
\* of an infinity is undefined behaviour and may yield any long, of which
\* three stand here.
UndefLong == {-1, 0, 181}

ToLong(f) ==
    IF ~IsNum(f) THEN UndefLong
    ELSE IF f.e >= 0 THEN {f.s * f.m * Pow2(f.e)}
    ELSE IF -f.e >= 31 THEN {0}
    ELSE {f.s * (f.m \div Pow2(-f.e))}

\* Mutant of Level: only a positive flag raises the gate.
LevelPositive(laser) == IF laser > 0 THEN "HIGH" ELSE "LOW"

\* laser ? HIGH : LOW
Level(laser) == IF laser # 0 THEN "HIGH" ELSE "LOW"

\* The bytes the host can put on the wire in one burst: whole command lines
\* with their terminator, and pieces of a line whose rest comes later or never.
Lines == {
    <<"h", "e", "l", "l", "o">>,
    <<"1", ".", "0", ":", "2", ".", "0">>,
    <<":", "1", ":", "1">>,
    <<"1", "0", ":", "1", "0", ":", "0">>,
    <<"a", "b", "c", ":", "2", ".", "0", ":", "1">>,
    <<"-", "1", "0", "0", ":", "1", "0", "0", ":", "-", "1">>,
    <<"i", "n", "f", ":", "-", "1", "0", "0", ":", "2">>,
    <<"n", "a", "n", ":", "0", ":", "0">>,
    <<"2", "0", ":", "0", ":", "0">>}

Pieces == {<<"1", "0", ":", "1", "0", ":">>, <<"0", "\n">>, <<"1", "0", ":", "1">>}

Chunks == {l \o <<"\n">> : l \in Lines} \cup Pieces

\* The number of bursts the host sends, and the bytes the receive buffer holds.
MaxChunks == 3

MaxRx == 16

VARIABLES
    currentPan,     \* float currentPan
    currentTilt,    \* float currentTilt
    laserPin,       \* the level last written to LASER_PIN
    panMicros,      \* the value last passed to panServo.writeMicroseconds, 0 before
    tiltMicros,     \* the value last passed to tiltServo.writeMicroseconds, 0 before
    nPanWrites,     \* calls of panServo.writeMicroseconds so far
    nTiltWrites,    \* calls of tiltServo.writeMicroseconds so far
    nLaserWrites,   \* calls of digitalWrite(LASER_PIN, ..) since setup()
    rx,             \* the bytes received on Serial and not yet read
    nChunks,        \* bursts received so far
    targets,        \* history: <<targetPan, targetTilt>> of the latest accepted command
    reads,          \* history: what loop() has read so far (see NoReads)
    last            \* history: the state just before the latest read

vars == <<currentPan, currentTilt, laserPin, panMicros, tiltMicros, nPanWrites,
          nTiltWrites, nLaserWrites, rx, nChunks, targets, reads, last>>

outputs == <<currentPan, currentTilt, laserPin, panMicros, tiltMicros,
             nPanWrites, nTiltWrites, nLaserWrites, targets>>

\* The history of the reads before the first one: n reads so far; the latest
\* returned line, ended by the terminator or not; well of the lines read had
\* two delimiters, the first of them not at index 0, and flag is the integer
\* in the third field of the latest of those.
NoReads == [n |-> 0, line |-> << >>, terminated |-> FALSE, well |-> 0, flag |-> 0]

\* The state when setup() returns: both angles 90, LASER_PIN low, nothing read.
Init ==
    /\ currentPan = FromInt(90)
    /\ currentTilt = FromInt(90)
    /\ laserPin = "LOW"
    /\ panMicros = 0
    /\ tiltMicros = 0
    /\ nPanWrites = 0
    /\ nTiltWrites = 0
    /\ nLaserWrites = 0
    /\ rx = << >>
    /\ nChunks = 0
    /\ targets = <<NaN, NaN>>
    /\ reads = NoReads
    /\ last = outputs

\* The host sends a burst; its bytes enter the receive buffer.
Receive(chunk) ==
    /\ nChunks < MaxChunks
    /\ Len(rx) + Len(chunk) <= MaxRx
    /\ rx' = rx \o chunk
    /\ nChunks' = nChunks + 1
    /\ UNCHANGED <<outputs, reads, last>>

\* Serial.readStringUntil('\n'): the bytes before the first terminator, which
\* is consumed too; without a terminator the read times out and returns all
\* the bytes received so far.  <<the String, terminator seen, the bytes left>>
ReadStringUntil(buf) ==
    LET nl == IndexOf(buf, "\n", 0) IN
    IF nl >= 0 THEN <<SubSeq(buf, 1, nl), TRUE, SubSeq(buf, nl + 2, Len(buf))>>
    ELSE <<buf, FALSE, << >> >>

\* int firstColon = command.indexOf(':');
FirstColon(command) == IndexOf(command, ":", 0)

\* int secondColon = command.indexOf(':', firstColon + 1);
SecondColon(command) == IndexOf(command, ":", FirstColon(command) + 1)

\* Mutant of Accepts: a first delimiter at index 0 passes.
AcceptsFromZero(command) ==
    FirstColon(command) >= 0 /\ SecondColon(command) > FirstColon(command)

\* Mutant of Accepts: the second delimiter is not required.
AcceptsOneColon(command) == FirstColon(command) > 0

\* if (firstColon > 0 && secondColon > firstColon)
Accepts(command) ==
    FirstColon(command) > 0 /\ SecondColon(command) > FirstColon(command)

\* float panDelta = command.substring(0, firstColon).toFloat();
PanDelta(command) == ToFloat(Substring(command, 0, FirstColon(command)))

\* float tiltDelta = command.substring(firstColon + 1, secondColon).toFloat();
TiltDelta(command) ==
    ToFloat(Substring(command, FirstColon(command) + 1, SecondColon(command)))

\* int laser = command.substring(secondColon + 1).toInt();  (The values of the
\* model fit an int of any width, so the conversion from long changes nothing.)
Laser(command) == ToInt(Substring(command, SecondColon(command) + 1, Len(command)))

\* void parseCommand(String command)
ParseCommand(command) ==
    LET targetPan  == Constrain(TargetPan(currentPan, PanDelta(command)), PAN_MIN, PAN_MAX)
        targetTilt == Constrain(TargetTilt(currentTilt, TiltDelta(command)), TILT_MIN, TILT_MAX)
    IN IF Accepts(command)
       THEN /\ targets' = <<targetPan, targetTilt>>
            /\ currentPan' = Smooth(currentPan, targetPan)
            /\ currentTilt' = Smooth(currentTilt, targetTilt)
            /\ \E x \in ToLong(currentPan') :
                   panMicros' = Map(x, PAN_MIN, PAN_MAX, 700, 2500)
            /\ \E x \in ToLong(currentTilt') :
                   tiltMicros' = Map(x, TILT_MIN, TILT_MAX, 700, 2500)
            /\ nPanWrites' = nPanWrites + 1
            /\ nTiltWrites' = nTiltWrites + 1
            /\ laserPin' = Level(Laser(command))
            /\ nLaserWrites' = nLaserWrites + 1
       ELSE UNCHANGED outputs

\* What loop() has read, in the terms of the line protocol.
\* The positions (1-based) of the delimiters of a line.
Colons(line) == {i \in 1 .. Len(line) : line[i] = ":"}

Least(S) == CHOOSE i \in S : \A j \in S : i <= j

\* A line with a first delimiter that is not its first character and a second
\* delimiter after it; every other line is malformed.
WellFormed(line) == Cardinality(Colons(line)) >= 2 /\ Least(Colons(line)) > 1

\* The three fields of a well-formed line.
Field1(line) == SubSeq(line, 1, Least(Colons(line)) - 1)

Field2(line) ==
    LET c1 == Least(Colons(line))
        c2 == Least(Colons(line) \ {c1})
    IN SubSeq(line, c1 + 1, c2 - 1)

Field3(line) ==
    LET c1 == Least(Colons(line))
        c2 == Least(Colons(line) \ {c1})
    IN SubSeq(line, c2 + 1, Len(line))

\* The history after one more read.
Observe(h, line, terminated) ==
    [n |-> h.n + 1, line |-> line, terminated |-> terminated,
     well |-> IF WellFormed(line) THEN h.well + 1 ELSE h.well,
     flag |-> IF WellFormed(line) THEN ToInt(Field3(line)) ELSE h.flag]

\* void loop(): one iteration
Loop ==
    IF Len(rx) > 0
    THEN LET got == ReadStringUntil(rx) IN
         /\ rx' = got[3]
         /\ reads' = Observe(reads, got[1], got[2])
         /\ last' = outputs
         /\ ParseCommand(got[1])
         /\ UNCHANGED nChunks
    ELSE UNCHANGED vars

Next ==
    \/ \E chunk \in Chunks : Receive(chunk)
    \/ Loop

Spec == Init /\ [][Next]_vars

\* The same program started with currentPan = 5: the angle the clamping example
\* of the specification starts from.  The program reaches it from setup():
\* eight lines "100:0:0" bring currentPan to 5.18832..., and the line
\* "0.627733:0:0" brings it from there to exactly 5.  The write counts and the
\* history are counted from that point on.
InitAt ==
    /\ currentPan \in {FromInt(5), FromInt(90)}
    /\ currentTilt = FromInt(90)
    /\ laserPin = "LOW"
    /\ panMicros = 0
    /\ tiltMicros = 0
    /\ nPanWrites = 0
    /\ nTiltWrites = 0
    /\ nLaserWrites = 0
    /\ rx = << >>
    /\ nChunks = 0
    /\ targets = <<NaN, NaN>>
    /\ reads = NoReads
    /\ last = outputs

SpecAt == InitAt /\ [][Next]_vars

\* ----------------------------------------------- vocabulary of the claims

\* The latest read, and the state before it (the fields of last, in the order
\* of outputs).
HasRead == reads.n > 0

Line == reads.line

PrevPan == last[1]

PrevTilt == last[2]

PrevLaserPin == last[3]

PrevWrites == <<last[6], last[7], last[8]>>

PrevTargets == last[9]

Writes == <<nPanWrites, nTiltWrites, nLaserWrites>>

InRange(a, lo, hi) == FLeq(FromInt(lo), a) /\ FLeq(a, FromInt(hi))

F(n, d) == FromRatio(1, n, d)

\* The floats the claims name.
F_0 == F(0, 1)

F_1 == F(1, 1)

F_100 == F(100, 1)

F_180 == F(180, 1)

F_2 == F(2, 1)

F_35_10 == F(35, 10)

F_3_10 == F(3, 10)

F_5 == F(5, 1)

F_599_1000 == F(599, 1000)

F_601_1000 == F(601, 1000)

F_69_100 == F(69, 100)

F_71_100 == F(71, 100)

F_80 == F(80, 1)

F_87 == F(87, 1)

F_90 == F(90, 1)

F_906_10 == F(906, 10)

F_93 == F(93, 1)

F_PAN_MAX == F(PAN_MAX, 1)

F_PAN_MIN == F(PAN_MIN, 1)

F_TILT_MAX == F(TILT_MAX, 1)

F_TILT_MIN == F(TILT_MIN, 1)

L_hello == <<"h", "e", "l", "l", "o">>

L_one == <<"1", ".", "0", ":", "2", ".", "0">>

L_colon0 == <<":", "1", ":", "1">>

L_10_10_0 == <<"1", "0", ":", "1", "0", ":", "0">>

L_abc == <<"a", "b", "c", ":", "2", ".", "0", ":", "1">>

L_up == <<"-", "1", "0", "0", ":", "1", "0", "0", ":", "-", "1">>

L_down == <<"i", "n", "f", ":", "-", "1", "0", "0", ":", "2">>

L_nan == <<"n", "a", "n", ":", "0", ":", "0">>

L_20 == <<"2", "0", ":", "0", ":", "0">>

L_piece == <<"1", "0", ":", "1", "0", ":">>

\* ------------------------------------------------------------------ C1
\* C1: after startup and after any sequence of input lines, both persisted
\* angles are in range: PAN_MIN <= currentPan <= PAN_MAX and
\* TILT_MIN <= currentTilt <= TILT_MAX.
C1_AnglesInRange ==
    /\ InRange(currentPan, PAN_MIN, PAN_MAX)
    /\ InRange(currentTilt, TILT_MIN, TILT_MAX)

\* ------------------------------------------------------------------ C2
\* C2: a line with no ':', with its first ':' at index 0, or with no second
\* ':' leaves currentPan and currentTilt unchanged and causes no servo write
\* and no gate write: the gate keeps its level.
C2_MalformedNoOp ==
    (HasRead /\ ~WellFormed(Line)) =>
        /\ currentPan = PrevPan
        /\ currentTilt = PrevTilt
        /\ laserPin = PrevLaserPin
        /\ Writes = PrevWrites
        /\ <<panMicros, tiltMicros>> = <<last[4], last[5]>>

\* Two malformed lines have been read, the latest of any of the three kinds,
\* and a command that moved the angles and raised the gate.
C2_Witness ==
    /\ reads.n = 3
    /\ reads.well = 1
    /\ Line \in {L_hello, L_one, L_colon0}
    /\ laserPin = "HIGH"
    /\ currentTilt # FromInt(90)

\* ------------------------------------------------------------------ C3
\* The deltas of a well-formed line, and the raw (unclamped) targets the
\* claims speak of.
Dp == ToFloat(Field1(Line))

Dt == ToFloat(Field2(Line))

RawPan == FSub(PrevPan, Dp)

RawTilt == FAdd(PrevTilt, Dt)

\* cur moved 0.3 of the way to tgt, in float arithmetic.
Step03(cur, tgt) == FAdd(cur, FMul(FSub(tgt, cur), F_3_10))

\* C3: for an accepted command whose raw targets are in range, the pan target
\* is currentPan - dp, the tilt target is currentTilt + dt, and each angle
\* moves 0.3 of the way to its target; from (90, 90) the command "10:10:0"
\* gives the targets 80 and 100 and the angles 87.0 and 93.0.
C3_SignsAndSmoothing ==
    (HasRead /\ WellFormed(Line)) =>
        /\ InRange(RawPan, PAN_MIN, PAN_MAX) =>
               targets[1] = RawPan /\ currentPan = Step03(PrevPan, RawPan)
        /\ InRange(RawTilt, TILT_MIN, TILT_MAX) =>
               targets[2] = RawTilt /\ currentTilt = Step03(PrevTilt, RawTilt)
        /\ (Line = L_10_10_0 /\ PrevPan = F_90 /\ PrevTilt = F_90) =>
               /\ targets = <<F_80, F_100>>
               /\ currentPan = F_87
               /\ currentTilt = F_93

C3_Witness ==
    /\ HasRead
    /\ Line = L_10_10_0
    /\ PrevPan = F_90
    /\ PrevTilt = F_90
    /\ currentPan = F_87
    /\ currentTilt = F_93

\* ------------------------------------------------------------------ C4
\* C4: for an accepted command whose raw target is below min_angle or above
\* max_angle, the target is the nearer bound and the new angle is
\* current + (bound - current) * 0.3; currentPan = 5 with "20:0:0" gives the
\* target 0 and the new currentPan 3.5.
C4_ClampThenSmooth ==
    (HasRead /\ WellFormed(Line)) =>
        /\ FLess(RawPan, F_PAN_MIN) =>
               targets[1] = F_PAN_MIN /\ currentPan = Step03(PrevPan, F_PAN_MIN)
        /\ FLess(F_PAN_MAX, RawPan) =>
               targets[1] = F_PAN_MAX /\ currentPan = Step03(PrevPan, F_PAN_MAX)
        /\ FLess(RawTilt, F_TILT_MIN) =>
               targets[2] = F_TILT_MIN /\ currentTilt = Step03(PrevTilt, F_TILT_MIN)
        /\ FLess(F_TILT_MAX, RawTilt) =>
               targets[2] = F_TILT_MAX /\ currentTilt = Step03(PrevTilt, F_TILT_MAX)
        /\ (Line = L_20 /\ PrevPan = F_5) =>
               targets[1] = F_0 /\ currentPan = F_35_10

C4_Witness ==
    /\ HasRead
    /\ Line = L_20
    /\ PrevPan = F_5
    /\ targets[1] = F_0
    /\ currentPan = F_35_10

\* ------------------------------------------------------------------ C5
\* trunc(700 + (a - lo) * 1800 / (hi - lo)) for a finite float a >= lo,
\* computed exactly on a = m * 2^e (1800 is a multiple of hi - lo).
FracMap(a, lo, hi) ==
    LET per == (2500 - 700) \div (hi - lo) IN
    IF a.e >= 0 THEN 700 + (a.m * Pow2(a.e) - lo) * per
    ELSE 700 + ((a.m - lo * Pow2(-a.e)) * per) \div Pow2(-a.e)

\* C5: for every accepted command, the drive value written for an axis is the
\* linear map of the axis's smoothed fractional angle from [min, max] onto
\* [700, 2500], truncated to an integer.
C5_FractionalMap ==
    (HasRead /\ WellFormed(Line)) =>
        /\ IsNum(currentPan) => panMicros = FracMap(currentPan, PAN_MIN, PAN_MAX)
        /\ IsNum(currentTilt) => tiltMicros = FracMap(currentTilt, TILT_MIN, TILT_MAX)

\* ------------------------------------------------------------------ C6
DriveOf(a, lo, hi) == {Map(x, lo, hi, 700, 2500) : x \in ToLong(a)}

\* C6: each accepted command causes exactly one pan drive write, one tilt drive
\* write and one gate write, issued after the angle update (the drive values
\* are those of the updated angles), and a discarded line causes none: the
\* number of writes of each kind is the number of accepted commands.
C6_WritesPerCommand ==
    LET n == reads.well
        k == IF HasRead /\ WellFormed(Line) THEN 1 ELSE 0
    IN /\ Writes = <<n, n, n>>
       /\ HasRead => Writes = <<PrevWrites[1] + k, PrevWrites[2] + k, PrevWrites[3] + k>>
       /\ n > 0 => /\ panMicros \in DriveOf(currentPan, PAN_MIN, PAN_MAX)
                   /\ tiltMicros \in DriveOf(currentTilt, TILT_MIN, TILT_MAX)

C6_Witness ==
    /\ reads.n = 3
    /\ reads.well = 2
    /\ WellFormed(Line)
    /\ Writes = <<2, 2, 2>>
    /\ PrevWrites = <<1, 1, 1>>
    /\ currentPan # PrevPan

\* ------------------------------------------------------------------ C7
\* The latest read is an accepted command whose clamped target t for an axis
\* is a number and equals the target of the accepted command before it, and
\* the angle before it is a number.
Held(t, prevT, prev) ==
    /\ HasRead
    /\ WellFormed(Line)
    /\ PrevWrites[1] >= 1
    /\ IsNum(t)
    /\ t = prevT
    /\ IsNum(prev)

\* new lies between prev and t, the ends included: it has not passed t.
Between(prev, new, t) ==
    \/ FLeq(prev, new) /\ FLeq(new, t)
    \/ FLeq(t, new) /\ FLeq(new, prev)

\* |a - b| for two finite floats, exactly: <<n, e>> with |a - b| = n * 2^e and
\* n odd, or <<0, 0>>.
RECURSIVE OddPart(_, _)
OddPart(n, e) ==
    IF n = 0 THEN <<0, 0>> ELSE IF n % 2 = 1 THEN <<n, e>> ELSE OddPart(n \div 2, e + 1)

ExactDist(a, b) ==
    LET e == IF a.e <= b.e THEN a.e ELSE b.e
        x == a.s * a.m * Pow2(a.e - e)
        y == b.s * b.m * Pow2(b.e - e)
    IN IF a.m = 0 THEN OddPart(b.m, b.e)
       ELSE IF b.m = 0 THEN OddPart(a.m, a.e)
       ELSE OddPart(Abs(x - y), e)

\* |t - new| = 0.7 * |t - prev|, exactly: 10 * n1 * 2^e1 = 7 * n0 * 2^e0.
ShrinksBy07(prev, new, t) ==
    LET d0 == ExactDist(t, prev)
        d1 == ExactDist(t, new)
    IN \/ d0[1] = 0 /\ d1[1] = 0
       \/ /\ d0[1] # 0
          /\ d1[1] % 7 = 0
          /\ d0[1] % 5 = 0
          /\ d1[1] \div 7 = d0[1] \div 5
          /\ d1[2] + 1 = d0[2]

\* C7 as stated: while repeated accepted commands keep the clamped target of
\* an axis at the same value, each new angle lies between the previous angle
\* and the target, never passes it, and the distance to the target shrinks by
\* the factor 0.7.
C7_ShrinksExactly ==
    /\ Held(targets[1], PrevTargets[1], PrevPan) =>
           /\ Between(PrevPan, currentPan, targets[1])
           /\ ShrinksBy07(PrevPan, currentPan, targets[1])
    /\ Held(targets[2], PrevTargets[2], PrevTilt) =>
           /\ Between(PrevTilt, currentTilt, targets[2])
           /\ ShrinksBy07(PrevTilt, currentTilt, targets[2])

\* The float distances before and after the update: d1 does not exceed d0, and
\* lies within 0.69 * d0 .. 0.71 * d0 when d0 is at least one degree.
Approaches(prev, new, t) ==
    LET d0 == IF FLess(prev, t) THEN FSub(t, prev) ELSE FSub(prev, t)
        d1 == IF FLess(new, t) THEN FSub(t, new) ELSE FSub(new, t)
    IN /\ Between(prev, new, t)
       /\ FLeq(d1, d0)
       /\ FLeq(F_1, d0) =>
              /\ FLeq(FMul(d0, F_69_100), d1)
              /\ FLeq(d1, FMul(d0, F_71_100))

\* C7, amended: while repeated accepted commands keep the clamped target of an
\* axis at the same value, each new angle lies between the previous angle and
\* the target and never passes it; the distance to the target never grows and
\* shrinks by the factor 0.7 up to float rounding (to between 0.69 and 0.71
\* of the previous distance whenever that distance is at least one degree).
C7_Approaches ==
    /\ Held(targets[1], PrevTargets[1], PrevPan) =>
           Approaches(PrevPan, currentPan, targets[1])
    /\ Held(targets[2], PrevTargets[2], PrevTilt) =>
           Approaches(PrevTilt, currentTilt, targets[2])

\* Two commands in a row saturate both axes at 180; the second moves each
\* angle strictly between its previous value and 180.
C7_Witness ==
    /\ reads.n = 2
    /\ Line = L_up
    /\ targets = <<F_180, F_180>>
    /\ PrevTargets = targets
    /\ FLess(PrevPan, currentPan)
    /\ FLess(currentPan, F_180)
    /\ FLess(PrevTilt, currentTilt)
    /\ FLess(currentTilt, F_180)

\* ------------------------------------------------------------------ C8
\* C8: the line "abc:2.0:1" is accepted; its pan delta is 0, so currentPan is
\* unchanged; when the raw tilt target currentTilt + 2.0 is in range,
\* currentTilt moves 0.3 of the way to it, which is 0.3 * 2.0 in float
\* arithmetic (a step within 0.599 .. 0.601; from 90 to the float nearest
\* 90.6); the gate is set active and the outputs are written.
C8_NonNumericField ==
    (HasRead /\ Line = L_abc) =>
        /\ Writes = <<PrevWrites[1] + 1, PrevWrites[2] + 1, PrevWrites[3] + 1>>
        /\ currentPan = PrevPan
        /\ InRange(PrevPan, PAN_MIN, PAN_MAX) => targets[1] = PrevPan
        /\ InRange(FAdd(PrevTilt, F_2), TILT_MIN, TILT_MAX) =>
               /\ targets[2] = FAdd(PrevTilt, F_2)
               /\ currentTilt = Step03(PrevTilt, FAdd(PrevTilt, F_2))
               /\ FLeq(F_599_1000, FSub(currentTilt, PrevTilt))
               /\ FLeq(FSub(currentTilt, PrevTilt), F_601_1000)
        /\ PrevTilt = F_90 => currentTilt = F_906_10
        /\ laserPin = "HIGH"

C8_Witness ==
    /\ HasRead
    /\ Line = L_abc
    /\ PrevPan = F_90
    /\ currentPan = F_90
    /\ PrevTilt = F_90
    /\ currentTilt = F_906_10
    /\ PrevLaserPin = "LOW"
    /\ laserPin = "HIGH"

\* ------------------------------------------------------------------ C9
\* C9: loop() applies an update only for a fully received line: a partial line
\* (bytes read without their terminator) is dropped without any state change
\* or output, and one iteration applies at most one update.
C9_PartialLineDropped ==
    HasRead =>
        /\ ~reads.terminated => outputs = last
        /\ nPanWrites <= PrevWrites[1] + 1

\* ----------------------------------------------------------------- C10
\* C10: the gate is inactive while no command has been accepted, and otherwise
\* is active exactly when the laser flag of the most recently accepted command
\* is nonzero (negative flags included); discarded lines do not change it.
C10_GateFollowsFlag ==
    IF reads.well = 0 THEN laserPin = "LOW"
    ELSE laserPin = "HIGH" <=> reads.flag # 0

\* A command with the flag -1 raised the gate, and two discarded lines later
\* it is still active.
C10_Witness ==
    /\ reads.n = 3
    /\ reads.well = 1
    /\ reads.flag = -1
    /\ Line = L_one
    /\ laserPin = "HIGH"

====
